---- MODULE Spec2Model ----
(***************************************************************************)
(* Model of the attestation-mobile signing core (src/rust/src/lib.rs):     *)
(*   - der_to_p1363_es256 / parse_der_length / int_to_fixed (the codec),   *)
(*   - decimal_to_exif_dms and build_manifest_definition,                  *)
(*   - HardwareSignerAdapter and build_and_sign_c2pa, with the thread-     *)
(*     local LAST_ERROR_DETAIL and Display for AttestationError.           *)
(* Bytes are integers 0..255, byte buffers are sequences of bytes.         *)
(* A Rust String is the sequence of its chars, each char its Unicode code  *)
(* point; Str("...") is the String of a literal of printable ASCII.        *)
(* Names of enum variants and of JSON keys are TLA+ strings.               *)
(***************************************************************************)
EXTENDS Integers, Sequences, FiniteSets, TLC

VARIABLES
    \* ---- codec harness (SpecCodec) ----
    codec_pc,      \* "input" | "decoded"
    der,           \* the buffer handed to der_to_p1363_es256
    der_kind,      \* how the buffer was built (which defect it carries)
    sig_r, sig_s,  \* the integers' value bytes the buffer was built from
    codec_out,     \* Result<Vec<u8>, String> of der_to_p1363_es256
    \* ---- manifest harness (SpecManifest) ----
    mf_pc,         \* "input" | "built"
    mf_ctx,        \* the CaptureContext
    mf_out,        \* build_manifest_definition(mf_ctx)
    \* ---- pipeline (Spec) ----
    pc,            \* position inside build_and_sign_c2pa ("idle" between calls)
    inv,           \* number of invocations started on this thread
    jpeg_bytes,    \* argument of the current invocation
    context,       \* argument of the current invocation
    cached_cert,   \* HardwareSignerAdapter.cached_cert (<<>> before construction)
    manifest_json, \* local of build_and_sign_c2pa
    asset_hash,    \* local of build_and_sign_c2pa
    calls,         \* calls made by the current invocation, in order
    signer_ret,    \* what the adapter's sign last returned to the embedder
    embed_err,     \* the error the embedder's sign returned ("none" if none)
    returned,      \* the value the invocation that has just returned gave back
    results,       \* results[i]: "Ok" or the error kind invocation i returned
    LAST_ERROR_DETAIL, \* the thread-local String
    detail_by,     \* which invocation stored LAST_ERROR_DETAIL (0: nobody)
    last_fmt,      \* the last Display::fmt call: the error formatted, which
                   \* invocation returned it, the text written, the detail
                   \* found in the cell, and who had stored the detail printed
    \* ---- the build ----
    debug_assertions, \* cfg(debug_assertions): TRUE in a debug build
    preserve_order    \* serde_json writes object keys in insertion order
                      \* (feature preserve_order) rather than sorted

codec_vars == <<codec_pc, der, der_kind, sig_r, sig_s, codec_out>>
mf_vars == <<mf_pc, mf_ctx, mf_out>>
pipe_vars == <<pc, inv, jpeg_bytes, context, cached_cert, manifest_json,
               asset_hash, calls, signer_ret, embed_err, returned, results,
               LAST_ERROR_DETAIL, detail_by, last_fmt,
               debug_assertions, preserve_order>>
vars == <<codec_vars, mf_vars, pipe_vars>>

Byte == 0..255

Ok(v) == [ok |-> TRUE, val |-> v]
Err(e) == [ok |-> FALSE, err |-> e]

\* n copies of byte b
Rep(n, b) == [i \in 1..n |-> b]

\* Rust's &s[from..] with a 0-based start
SliceFrom(s, from) == SubSeq(s, from + 1, Len(s))

\* Rust's &s[from..to] with 0-based, end-exclusive bounds
Slice(s, from, to) == SubSeq(s, from + 1, to)

\* the printable ASCII characters U+0020..U+005F and U+0061..U+007E, in
\* order (U+0060 cannot stand in a literal)
AsciiLow == " !\"#$%&'()*+,-./0123456789:;<=>?@ABCDEFGHIJKLMNOPQRSTUVWXYZ[\\]^_"
AsciiHigh == "abcdefghijklmnopqrstuvwxyz{|}~"

\* the code point of each of these characters
AsciiTable ==
    [c \in {SubSeq(AsciiLow, i, i) : i \in 1..Len(AsciiLow)} |->
        31 + (CHOOSE i \in 1..Len(AsciiLow) : SubSeq(AsciiLow, i, i) = c)]
    @@ [c \in {SubSeq(AsciiHigh, i, i) : i \in 1..Len(AsciiHigh)} |->
        96 + (CHOOSE i \in 1..Len(AsciiHigh) : SubSeq(AsciiHigh, i, i) = c)]

\* the code point of a printable ASCII character
CodeOf(c) == AsciiTable[c]

\* the String of a literal
Str(lit) == [i \in 1..Len(lit) |-> CodeOf(SubSeq(lit, i, i))]

\* "{}" of an unsigned integer
Dec(n) == Str(ToString(n))

(***************************************************************************)
(* SignatureCodec                                                          *)
(***************************************************************************)

\* the ES256 field width handed to int_to_fixed
FieldSize == 32

\* the shortest buffer der_to_p1363_es256 looks at
MinDerLen == 8

\* parse_der_length: Ok(<<length_value, bytes_consumed>>) or Err(text)
parse_der_length(data) ==
    IF Len(data) = 0 THEN Err(Str("empty DER length"))
    ELSE IF data[1] < 128 THEN Ok(<<data[1], 1>>)
    ELSE IF data[1] = 129 THEN
        IF Len(data) < 2 THEN Err(Str("truncated DER length"))
        ELSE Ok(<<data[2], 2>>)
    ELSE IF data[1] = 130 THEN
        IF Len(data) < 3 THEN Err(Str("truncated DER length"))
        ELSE Ok(<<data[2] * 256 + data[3], 3>>)
    ELSE Err(Str("unsupported DER length encoding"))

\* bytes.iter().position(|&b| b != 0): 0-based index, or -1 for None
FirstNonZero(bytes) ==
    IF \E i \in 1..Len(bytes) : bytes[i] # 0
    THEN (CHOOSE i \in 1..Len(bytes) :
              /\ bytes[i] # 0
              /\ \A j \in 1..(i - 1) : bytes[j] = 0) - 1
    ELSE -1

\* the slice int_to_fixed keeps after stripping the leading zero bytes
Stripped(bytes) ==
    IF FirstNonZero(bytes) >= 0 THEN SliceFrom(bytes, FirstNonZero(bytes))
    ELSE <<0>>

\* format!("integer too large: {} bytes, expected <= {}", len, size), where
\* the source has U+2264 for "<="
TooLarge(len, size) ==
    Str("integer too large: ") \o Dec(len) \o Str(" bytes, expected ")
        \o <<8804>> \o Str(" ") \o Dec(size)

\* an int_to_fixed that pads the bytes as they come, zero bytes included
int_to_fixed_nostrip(bytes, size) ==
    IF Len(bytes) > size
    THEN Err(TooLarge(Len(bytes), size))
    ELSE Ok(Rep(size - Len(bytes), 0) \o bytes)

\* an int_to_fixed that keeps the low `size` bytes of an over-long integer
int_to_fixed_truncating(bytes, size) ==
    LET stripped == Stripped(bytes) IN
    IF Len(stripped) > size
    THEN Ok(SliceFrom(stripped, Len(stripped) - size))
    ELSE Ok(Rep(size - Len(stripped), 0) \o stripped)

\* Strip leading zeros from an ASN.1 INTEGER and left-pad to `size` bytes
int_to_fixed(bytes, size) ==
    LET stripped == Stripped(bytes) IN
    IF Len(stripped) > size
    THEN Err(TooLarge(Len(stripped), size))
    ELSE Ok(Rep(size - Len(stripped), 0) \o stripped)

NotADerSequence == Str("not a DER SEQUENCE")

der_to_p1363_es256(d) ==
    IF Len(d) < MinDerLen \/ d[1] # 48 THEN Err(NotADerSequence)
    ELSE
    LET outer == parse_der_length(SliceFrom(d, 1)) IN
    IF ~outer.ok THEN outer
    ELSE
    LET seq_len == outer.val[1]
        offset == outer.val[2]
        rest == SliceFrom(d, 1 + offset)
    IN
    IF Len(rest) < seq_len THEN Err(Str("DER SEQUENCE truncated"))
    ELSE
    LET seq_body == Slice(rest, 0, seq_len) IN
    IF Len(seq_body) = 0 \/ seq_body[1] # 2 THEN Err(Str("expected INTEGER tag for r"))
    ELSE
    LET rl == parse_der_length(SliceFrom(seq_body, 1)) IN
    IF ~rl.ok THEN rl
    ELSE
    LET r_len == rl.val[1]
        r_start == 1 + rl.val[2]
    IN
    IF Len(seq_body) < r_start + r_len THEN Err(Str("r INTEGER truncated"))
    ELSE
    LET r_bytes == Slice(seq_body, r_start, r_start + r_len)
        s_tag_pos == r_start + r_len
    IN
    IF Len(seq_body) <= s_tag_pos \/ seq_body[s_tag_pos + 1] # 2
    THEN Err(Str("expected INTEGER tag for s"))
    ELSE
    LET sl == parse_der_length(SliceFrom(seq_body, s_tag_pos + 1)) IN
    IF ~sl.ok THEN sl
    ELSE
    LET s_len == sl.val[1]
        s_start == s_tag_pos + 1 + sl.val[2]
    IN
    IF Len(seq_body) < s_start + s_len THEN Err(Str("s INTEGER truncated"))
    ELSE
    LET s_bytes == Slice(seq_body, s_start, s_start + s_len)
        r == int_to_fixed(r_bytes, FieldSize)
    IN
    IF ~r.ok THEN r
    ELSE
    LET s == int_to_fixed(s_bytes, FieldSize) IN
    IF ~s.ok THEN s
    ELSE Ok(r.val \o s.val)

(***************************************************************************)
(* Codec harness: DER buffers built from value bytes, then decoded.        *)
(***************************************************************************)

\* how many bytes past the field width an over-long integer may have
MaxOver == 2

\* how many redundant leading zero bytes an over-long integer may carry
MaxLeadZeros == 1

\* a big-endian value of n significant bytes, as FieldSize bytes
ValueOf(n, lead, fill) ==
    Rep(FieldSize - n, 0) \o <<lead>> \o Rep(n - 1, fill)

SigLens == {1, 2, FieldSize - 1, FieldSize}
SigLeads == {1, 127, 128, 255}
SigFills == {0, 255}

\* values of [0, 2^256): zero, one-byte values, values with and without the
\* top bit of the leading byte set, full-width values
SigValues ==
    {Rep(FieldSize, 0)} \cup
    {ValueOf(n, l, f) : n \in SigLens, l \in SigLeads, f \in SigFills}

\* the value's bytes without leading zero bytes, at least one byte
RECURSIVE MinimalBytes(_)
MinimalBytes(v) ==
    IF Len(v) > 1 /\ v[1] = 0 THEN MinimalBytes(Tail(v)) ELSE v

\* DER content of a non-negative INTEGER: minimal, 0x00 first if the top bit is set
DerIntContent(v) ==
    LET m == MinimalBytes(v) IN IF m[1] >= 128 THEN <<0>> \o m ELSE m

\* a DER length field: "min" is DER's own (shortest) form, "81" and "82" force
\* the long forms
DerLen(n, form) ==
    IF form = "82" \/ (form = "min" /\ n >= 256) THEN <<130, n \div 256, n % 256>>
    ELSE IF form = "81" \/ (form = "min" /\ n >= 128) THEN <<129, n>>
    ELSE <<n>>

DerTlv(tag, content, form) == <<tag>> \o DerLen(Len(content), form) \o content

\* SEQUENCE { INTEGER r, INTEGER s } from the integers' content bytes
DerSig(rc, sc, form) == DerTlv(48, DerTlv(2, rc, "min") \o DerTlv(2, sc, "min"), form)

\* the same SEQUENCE with the form of each of its three length fields chosen
DerSigWith(rc, sc, form, r_form, s_form) ==
    DerTlv(48, DerTlv(2, rc, r_form) \o DerTlv(2, sc, s_form), form)

\* minimal DER of the signature (r, s)
EncodeDer(r, s) == DerSig(DerIntContent(r), DerIntContent(s), "min")

\* pad a buffer with trailing bytes up to the length der_to_p1363_es256 looks at
PadTo(d, n) == IF Len(d) >= n THEN d ELSE d \o Rep(n - Len(d), 0)

In(kind, r, s, d) == [kind |-> kind, r |-> r, s |-> s, der |-> d]

SmallValues == {Rep(FieldSize, 0), ValueOf(1, 128, 0), ValueOf(FieldSize, 255, 255)}

\* integer contents longer than FieldSize bytes once their leading zeros are gone
OverLong ==
    {Rep(z, 0) \o <<l>> \o Rep(FieldSize + k - 1, 255) :
        z \in 0..MaxLeadZeros, k \in 1..MaxOver, l \in {1, 128}}

ValidInputs ==
    {In("valid", r, s, EncodeDer(r, s)) : r \in SigValues, s \in SigValues}

LongFormInputs ==
    {In("long_form", r, s, DerSig(DerIntContent(r), DerIntContent(s), f)) :
        r \in SmallValues, s \in SmallValues, f \in {"81", "82"}}

BadTagInputs ==
    {In("bad_tag", r, r, [EncodeDer(r, r) EXCEPT ![1] = t]) :
        r \in SmallValues, t \in {0, 2, 49, 255}}
    \cup {In("bad_tag", <<>>, <<>>, d) : d \in {<<2>>, <<49, 0>>, <<0, 6, 2, 1, 1, 2, 1>>}}

UnsupportedLens == {128, 131, 132, 255}

LengthDefectInputs ==
    {In("outer_len_unsupported", r, r, <<48, b>> \o SliceFrom(EncodeDer(r, r), 2)) :
        r \in SmallValues, b \in UnsupportedLens}
    \cup {In("r_len_unsupported", r, r, [EncodeDer(r, r) EXCEPT ![4] = b]) :
        r \in SmallValues, b \in UnsupportedLens}
    \cup {In("s_len_unsupported", <<1>>, <<1>>, <<48, 6, 2, 1, 1, 2, b, 1>>) :
        b \in UnsupportedLens}
    \cup {In("r_len_truncated", <<>>, <<>>, PadTo(d, MinDerLen)) :
        d \in {<<48, 2, 2, 129>>, <<48, 2, 2, 130>>, <<48, 3, 2, 130, 0>>, <<48, 1, 2>>}}
    \cup {In("s_len_truncated", <<1>>, <<>>, PadTo(d, MinDerLen)) :
        d \in {<<48, 5, 2, 1, 1, 2, 129>>, <<48, 5, 2, 1, 1, 2, 130>>,
               <<48, 6, 2, 1, 1, 2, 130, 0>>, <<48, 4, 2, 1, 1, 2>>}}

\* the encodings, in every mix of length forms, that get cut
CutSources ==
    {[rc |-> DerIntContent(r), sc |-> DerIntContent(s), form |-> f,
      r_form |-> rf, s_form |-> sf] :
        r \in SmallValues, s \in SmallValues, f \in {"min", "81"},
        rf \in {"min", "82"}, sf \in {"min", "81", "82"}}

\* index of the tag byte of r in an encoding, and of the tag byte of s
RTag(c) == 1 + Len(DerLen(Len(DerTlv(2, c.rc, c.r_form))
                          + Len(DerTlv(2, c.sc, c.s_form)), c.form)) + 1
STag(c) == RTag(c) + Len(DerLen(Len(c.rc), c.r_form)) + Len(c.rc) + 1

\* the first n bytes of an encoding
CutAt(kind, c, n) ==
    In(kind, c.rc, c.sc,
       SubSeq(DerSigWith(c.rc, c.sc, c.form, c.r_form, c.s_form), 1, n))

\* an encoding cut off by the end of the buffer right after the tag of r or
\* of s, or inside the length field that follows it; and a buffer whose
\* two-byte length of s lacks its last byte
CutInputs ==
    UNION {{CutAt("r_len_cut", c, RTag(c) + k) :
                k \in 0..(Len(DerLen(Len(c.rc), c.r_form)) - 1)} : c \in CutSources}
    \cup
    UNION {{CutAt("s_len_cut", c, STag(c) + k) :
                k \in 0..(Len(DerLen(Len(c.sc), c.s_form)) - 1)} : c \in CutSources}
    \cup {In("s_len_cut", <<1>>, <<1>>, <<48, 7, 2, 1, 1, 2, 130, 0>>)}

\* the outer length field is cut off by the end of the buffer
OuterTruncatedInputs ==
    {In("outer_len_truncated", <<>>, <<>>, d) :
        d \in {<<48, 129>>, <<48, 130>>, <<48, 130, 0>>}}

TooLongInputs ==
    {In("r_too_long", rc, DerIntContent(s), DerSig(rc, DerIntContent(s), "min")) :
        rc \in OverLong, s \in SmallValues}
    \cup {In("s_too_long", DerIntContent(r), sc, DerSig(DerIntContent(r), sc, "min")) :
        r \in SmallValues, sc \in OverLong}
    \cup {In("r_too_long", rc, sc, DerSig(rc, sc, "81")) : rc \in OverLong, sc \in OverLong}

\* other malformed buffers: body cut short, wrong inner tags, contents cut short
OtherInputs ==
    {In("other", <<>>, <<>>, d) :
        d \in {<<48, 10, 2, 1, 1, 2, 1, 1>>, <<48, 6, 4, 1, 1, 2, 1, 1>>,
               <<48, 6, 2, 1, 1, 4, 1, 1>>, <<48, 6, 2, 9, 1, 2, 1, 1>>,
               <<48, 6, 2, 1, 1, 2, 9, 1>>, <<48, 0, 2, 1, 1, 2, 1, 1>>,
               <<48, 3, 2, 1, 1, 2, 1, 1>>, <<48>>, <<>>}}

CodecInputs ==
    ValidInputs \cup LongFormInputs \cup BadTagInputs \cup LengthDefectInputs
    \cup CutInputs \cup OuterTruncatedInputs \cup TooLongInputs \cup OtherInputs

CodecIdle ==
    /\ codec_pc = "input"
    /\ der = <<>>
    /\ der_kind = "none"
    /\ sig_r = <<>>
    /\ sig_s = <<>>
    /\ codec_out = Err(<<>>)

CodecInit ==
    /\ codec_pc = "input"
    /\ \E i \in CodecInputs :
        /\ der = i.der
        /\ der_kind = i.kind
        /\ sig_r = i.r
        /\ sig_s = i.s
    /\ codec_out = Err(<<>>)

\* one call der_to_p1363_es256(&der)
Decode ==
    /\ codec_pc = "input"
    /\ codec_out' = der_to_p1363_es256(der)
    /\ codec_pc' = "decoded"
    /\ UNCHANGED <<der, der_kind, sig_r, sig_s>>

(***************************************************************************)
(* GeoFormatter and ManifestBuilder                                        *)
(*                                                                         *)
(* A JSON value is modelled by the value it denotes: an object is a        *)
(* function from its keys, an array a sequence.                            *)
(* A coordinate is an integer count of 1/10000 degree,                     *)
(* for which (abs - d) * 60.0 is a whole number of thousandths of a minute *)
(* and "{:.3}" prints it exactly.                                          *)
(***************************************************************************)

None == <<>>
Some(x) == <<x>>
IsSome(o) == Len(o) = 1
Unwrap(o) == o[1]

Abs(x) == IF x < 0 THEN 0 - x ELSE x

\* "{:.3}" of a number given in thousandths
Fixed3(th) ==
    LET frac == th % 1000 IN
    ToString(th \div 1000) \o "."
        \o (IF frac < 10 THEN "00" ELSE IF frac < 100 THEN "0" ELSE "")
        \o ToString(frac)

decimal_to_exif_dms(degrees, is_latitude) ==
    LET abs == Abs(degrees)
        d == abs \div 10000
        minutes == (abs - d * 10000) * 6
        suffix == IF is_latitude
                  THEN (IF degrees >= 0 THEN "N" ELSE "S")
                  ELSE IF degrees >= 0 THEN "E" ELSE "W"
    IN Str(ToString(d) \o "," \o Fixed3(minutes) \o suffix)

\* char::is_whitespace: the code points with the Unicode White_Space
\* property (U+0009..U+000D, U+0020, U+0085, U+00A0, U+1680,
\* U+2000..U+200A, U+2028, U+2029, U+202F, U+205F, U+3000)
IsWhitespace(c) ==
    \/ c \in 9..13
    \/ c \in {32, 133, 160, 5760}
    \/ c \in 8192..8202
    \/ c \in {8232, 8233, 8239, 8287, 12288}

\* device_model.split_whitespace().next(): the first maximal run of
\* non-whitespace characters, None if there is none
FirstToken(str) ==
    IF \A i \in 1..Len(str) : IsWhitespace(str[i]) THEN None
    ELSE
    LET first == CHOOSE i \in 1..Len(str) :
                     /\ ~IsWhitespace(str[i])
                     /\ \A j \in 1..(i - 1) : IsWhitespace(str[j])
        last == CHOOSE k \in first..Len(str) :
                     /\ \A j \in first..k : ~IsWhitespace(str[j])
                     /\ (k = Len(str) \/ IsWhitespace(str[k + 1]))
    IN Some(SubSeq(str, first, last))

\* env!("CARGO_PKG_VERSION"), fixed when the crate is built
CARGO_PKG_VERSION == Str("CARGO_PKG_VERSION")

ExifBase(ctx) ==
    LET tok == FirstToken(ctx.device_model)
        make == IF IsSome(tok) THEN Unwrap(tok) ELSE ctx.device_model
    IN ("@context" :> [exif |-> Str("http://ns.adobe.com/exif/1.0/")])
       @@ ("exif:Make" :> make)
       @@ ("exif:Model" :> ctx.device_model)
       @@ ("exif:DateTimeOriginal" :> ctx.captured_at_iso8601)

ExifGps(ctx) ==
    ("exif:GPSVersionID" :> Str("2.2.0.0"))
    @@ ("exif:GPSLatitude" :> decimal_to_exif_dms(Unwrap(ctx.latitude), TRUE))
    @@ ("exif:GPSLongitude" :> decimal_to_exif_dms(Unwrap(ctx.longitude), FALSE))
    @@ ("exif:GPSTimeStamp" :> ctx.captured_at_iso8601)

FixedAssertions(ctx, exif_data) ==
    << [label |-> Str("c2pa.actions"),
        data |-> [actions |-> <<
            [action |-> Str("c2pa.created"),
             digitalSourceType |->
                 Str("http://cv.iptc.org/newscodes/digitalsourcetype/digitalCapture"),
             softwareAgent |-> [name |-> ctx.app_name,
                                version |-> CARGO_PKG_VERSION]] >>]],
       [label |-> Str("stds.schema-org.CreativeWork"),
        data |-> ("@context" :> Str("https://schema.org"))
                 @@ ("@type" :> Str("CreativeWork"))
                 @@ ("author" :> << ("@type" :> Str("Organization"))
                                    @@ ("name" :> ctx.app_name) >>)],
       [label |-> Str("stds.exif"), data |-> exif_data],
       [label |-> Str("attestation.device"),
        data |-> [deviceModel |-> ctx.device_model,
                  osVersion |-> ctx.os_version,
                  trustLevel |-> ctx.trust_level]],
       [label |-> Str("attestation.capture_time"),
        data |-> [timestamp |-> ctx.captured_at_iso8601]] >>

\* the format "image/jpeg"
ImageJpeg == Str("image/jpeg")

TrustAssertion(ctx) ==
    [label |-> Str("attestation.trust"),
     data |-> [trustLevel |-> ctx.trust_level, nonce |-> Unwrap(ctx.nonce)]]

ManifestOf(ctx, assertions) ==
    [title |-> Str("Attested Photo ") \o ctx.captured_at_iso8601,
     format |-> ImageJpeg,
     claim_generator_info |-> <<[name |-> ctx.app_name,
                                 version |-> CARGO_PKG_VERSION]>>,
     assertions |-> assertions]

\* a builder that adds GPS fields as soon as one coordinate is there
build_manifest_definition_gps_either(ctx) ==
    LET gps == ("exif:GPSVersionID" :> Str("2.2.0.0"))
               @@ ("exif:GPSTimeStamp" :> ctx.captured_at_iso8601)
        exif_data ==
            IF IsSome(ctx.latitude) /\ IsSome(ctx.longitude)
            THEN ExifGps(ctx) @@ ExifBase(ctx)
            ELSE IF IsSome(ctx.latitude) \/ IsSome(ctx.longitude)
            THEN gps @@ ExifBase(ctx)
            ELSE ExifBase(ctx)
        assertions ==
            IF IsSome(ctx.nonce)
            THEN Append(FixedAssertions(ctx, exif_data), TrustAssertion(ctx))
            ELSE FixedAssertions(ctx, exif_data)
    IN ManifestOf(ctx, assertions)

\* a builder that appends the trust assertion always, with an empty nonce
\* when none is supplied
build_manifest_definition_always_trust(ctx) ==
    LET exif_data ==
            IF IsSome(ctx.latitude) /\ IsSome(ctx.longitude)
            THEN ExifGps(ctx) @@ ExifBase(ctx)
            ELSE ExifBase(ctx)
        withNonce == IF IsSome(ctx.nonce) THEN ctx ELSE [ctx EXCEPT !.nonce = Some(<<>>)]
    IN ManifestOf(ctx, Append(FixedAssertions(ctx, exif_data), TrustAssertion(withNonce)))

build_manifest_definition(ctx) ==
    LET exif_data ==
            IF IsSome(ctx.latitude) /\ IsSome(ctx.longitude)
            THEN ExifGps(ctx) @@ ExifBase(ctx)
            ELSE ExifBase(ctx)
        assertions ==
            IF IsSome(ctx.nonce)
            THEN Append(FixedAssertions(ctx, exif_data), TrustAssertion(ctx))
            ELSE FixedAssertions(ctx, exif_data)
    IN ManifestOf(ctx, assertions)

\* the lower-case hexadecimal digit of d < 16
HexDigit(d) == CodeOf(SubSeq("0123456789abcdef", d + 1, d + 1))

\* serde_json's escape of one char inside a JSON string
JsonEscapeChar(c) ==
    CASE c = 34 -> Str("\\\"")
      [] c = 92 -> Str("\\\\")
      [] c = 8 -> Str("\\b")
      [] c = 9 -> Str("\\t")
      [] c = 10 -> Str("\\n")
      [] c = 12 -> Str("\\f")
      [] c = 13 -> Str("\\r")
      [] c < 32 /\ c \notin {8, 9, 10, 12, 13} ->
            Str("\\u00") \o <<HexDigit(c \div 16), HexDigit(c % 16)>>
      [] OTHER -> <<c>>

\* the chars serde_json writes between the quotes of a JSON string
RECURSIVE JsonEscape(_)
JsonEscape(str) ==
    IF Len(str) = 0 THEN <<>>
    ELSE IF Len(str) = 1 THEN JsonEscapeChar(str[1])
    ELSE LET half == Len(str) \div 2
         IN JsonEscape(SubSeq(str, 1, half))
            \o JsonEscape(SubSeq(str, half + 1, Len(str)))

\* what manifest_def.to_string() writes before the first app_name when the
\* keys come sorted (assertions, then data of c2pa.actions)
HeadSorted ==
    Str("{\"assertions\":[{\"data\":{\"actions\":[{\"action\":\"c2pa.created\",")
    \o Str("\"digitalSourceType\":")
    \o Str("\"http://cv.iptc.org/newscodes/digitalsourcetype/digitalCapture\",")
    \o Str("\"softwareAgent\":{\"name\":\"")

\* what it writes before the title's timestamp, and between the title and
\* the first app_name, when the keys come in insertion order
HeadTitle == Str("{\"title\":\"Attested Photo ")
HeadGenerator ==
    Str("\",\"format\":\"image/jpeg\",\"claim_generator_info\":[{\"name\":\"")

\* the start of manifest_def.to_string(), up to the end of the first
\* app_name. What follows (the key "version", CARGO_PKG_VERSION and the
\* text up to the next string of the context) is ASCII and reaches past
\* byte DebugSliceEnd.
to_string_head(ctx, insertion_order) ==
    IF insertion_order
    THEN HeadTitle \o JsonEscape(ctx.captured_at_iso8601)
         \o HeadGenerator \o JsonEscape(ctx.app_name)
    ELSE HeadSorted \o JsonEscape(ctx.app_name)

\* the number of bytes of a char in UTF-8
Utf8Len(c) ==
    IF c < 128 THEN 1 ELSE IF c < 2048 THEN 2 ELSE IF c < 65536 THEN 3 ELSE 4

\* str::len(): the number of bytes of the text in UTF-8, one for each char
\* and one more for each width the char exceeds
ByteLen(text) ==
    Len(text)
    + Cardinality({i \in 1..Len(text) : Utf8Len(text[i]) >= 2})
    + Cardinality({i \in 1..Len(text) : Utf8Len(text[i]) >= 3})
    + Cardinality({i \in 1..Len(text) : Utf8Len(text[i]) >= 4})

\* the number of leading chars of the text that end at or before byte
\* `index`, looked for between lo and hi
RECURSIVE CharsWithin(_, _, _, _)
CharsWithin(text, index, lo, hi) ==
    IF lo >= hi THEN lo
    ELSE LET mid == (lo + hi + 1) \div 2 IN
         IF ByteLen(SubSeq(text, 1, mid)) <= index
         THEN CharsWithin(text, index, mid, hi)
         ELSE CharsWithin(text, index, lo, mid - 1)

\* str::is_char_boundary(index): a char starts at byte `index`, or the text
\* ends there
is_char_boundary(text, index) ==
    ByteLen(SubSeq(text, 1, CharsWithin(text, index, 0, Len(text)))) = index

\* the end of the slice the debug build prints
DebugSliceEnd == 200

\* &manifest_json[..min(200, manifest_json.len())] does not panic: byte 200
\* of manifest_json starts a char
debug_slice_ok(ctx, insertion_order) ==
    LET head == to_string_head(ctx, insertion_order) IN
    \/ ByteLen(head) <= DebugSliceEnd
    \/ is_char_boundary(head, DebugSliceEnd)

(***************************************************************************)
(* Manifest harness: a CaptureContext is drawn, then built.                *)
(***************************************************************************)

\* "Pix 8", "iPh", "", " ", " X\tY", "A\u{c}B", "\u{c}", "A\u{b}B",
\* "A\u{a0}B", "\u{85}\u{3000}", "A\u{200b}B" (U+200B is not whitespace)
DeviceModels ==
    { <<80, 105, 120, 32, 56>>, <<105, 80, 104>>, <<>>, <<32>>,
      <<32, 88, 9, 89>>, <<65, 12, 66>>, <<12>>, <<65, 11, 66>>,
      <<65, 160, 66>>, <<133, 12288>>, <<65, 8203, 66>> }
NonceOptions == {None, Some(Str("nonce-1")), Some(<<>>)}
LatitudeOptions == {None, Some(393517), Some(0 - 5)}
LongitudeOptions == {None, Some(0 - 739857), Some(1800000)}

Context(app, dev, os, at, trust, nonce, lat, lon) ==
    [app_name |-> app, device_model |-> dev, os_version |-> os,
     captured_at_iso8601 |-> at, trust_level |-> trust,
     nonce |-> nonce, latitude |-> lat, longitude |-> lon]

ManifestContexts ==
    {Context(Str("CamApp"), dev, Str("14"), at, Str("hardware-attested"), n, lat, lon) :
        dev \in DeviceModels, at \in {Str("2024-01-01T00:00:00Z"), <<>>},
        n \in NonceOptions, lat \in LatitudeOptions, lon \in LongitudeOptions}

MfIdle ==
    /\ mf_pc = "input"
    /\ mf_ctx = Context(<<>>, <<>>, <<>>, <<>>, <<>>, None, None, None)
    /\ mf_out = <<>>

MfInit ==
    /\ mf_pc = "input"
    /\ mf_ctx \in ManifestContexts
    /\ mf_out = <<>>

\* one call build_manifest_definition(&mf_ctx)
BuildManifest ==
    /\ mf_pc = "input"
    /\ mf_out' = build_manifest_definition(mf_ctx)
    /\ mf_pc' = "built"
    /\ UNCHANGED mf_ctx

(***************************************************************************)
(* Errors, the thread-local detail and Display                             *)
(***************************************************************************)

AttestationError ==
    {"SigningFailed", "ManifestBuildFailed", "CertificateError",
     "JpegEmbedFailed", "JpegValidationFailed"}

SignerError ==
    {"HardwareUnavailable", "KeyNotFound", "SignatureOperationFailed",
     "CertificateExportFailed"}

\* what Display for SignerError writes for each variant
SignerErrorText ==
    [e \in SignerError |->
        CASE e = "HardwareUnavailable" -> Str("Hardware unavailable")
          [] e = "KeyNotFound" -> Str("Key not found")
          [] e = "SignatureOperationFailed" -> Str("Signature operation failed")
          [] e = "CertificateExportFailed" -> Str("Certificate export failed")]

\* Display for SignerError
SignerErrorDisplay(e) == SignerErrorText[e]

\* a c2pa::Error: its variant and, for BadParam(String), the string
BadParam(msg) == [variant |-> "BadParam", msg |-> msg]
UnitError(v) == [variant |-> v, msg |-> <<>>]

\* lower-case hexadecimal without leading zeros
RECURSIVE Hex(_)
Hex(n) ==
    IF n < 16 THEN <<HexDigit(n)>>
    ELSE Hex(n \div 16) \o <<HexDigit(n % 16)>>

\* chars that str's Debug writes as \u{..}: the controls without a short
\* escape, U+007F..U+00A0, U+00AD, the combining diacritical marks, the
\* Unicode spaces and format characters of U+1680, U+2000..U+200F,
\* U+2028..U+202F, U+205F..U+2064 and U+3000, the private use area, U+FEFF
EscapedChars ==
    (1..8) \cup {11, 12} \cup (14..31) \cup (127..160) \cup {173}
    \cup (768..879) \cup {5760} \cup (8192..8207) \cup (8232..8239)
    \cup (8287..8292) \cup {12288} \cup (57344..63743) \cup {65279}

\* chars that str's Debug writes as they are: printable ASCII but the quote
\* and the backslash, the printable chars of Latin-1 and Latin Extended-A,
\* and the two non-ASCII chars of the source's messages. For a char in
\* none of the sets the standard library's tables decide; the model leaves
\* it undefined.
PlainChars ==
    ((32..126) \ {34, 92}) \cup (161..172) \cup (174..383) \cup {8594, 8804}

\* the backslash escapes of char::escape_debug_ext
ShortEscapes ==
    (0 :> Str("\\0")) @@ (9 :> Str("\\t")) @@ (10 :> Str("\\n"))
    @@ (13 :> Str("\\r")) @@ (34 :> Str("\\\"")) @@ (92 :> Str("\\\\"))

UnicodeEscapeOpen == Str("\\u{")
UnicodeEscapeClose == Str("}")

\* char::escape_debug_ext as <str as Debug>::fmt calls it
EscapeDebugChar(c) ==
    CASE c \in DOMAIN ShortEscapes -> ShortEscapes[c]
      [] c \in EscapedChars -> UnicodeEscapeOpen \o Hex(c) \o UnicodeEscapeClose
      [] c \in PlainChars -> <<c>>

\* the chars <str as Debug>::fmt writes between the two quotes
RECURSIVE EscapeDebug(_)
EscapeDebug(str) ==
    IF Len(str) = 0 THEN <<>>
    ELSE IF Len(str) = 1 THEN EscapeDebugChar(str[1])
    ELSE LET half == Len(str) \div 2
         IN EscapeDebug(SubSeq(str, 1, half))
            \o EscapeDebug(SubSeq(str, half + 1, Len(str)))

BadParamOpen == Str("BadParam(\"")
BadParamClose == Str("\")")

\* format!("{:?}", e) of a c2pa::Error: derive(Debug) writes the variant's
\* name and, for BadParam(String), the string's Debug in parentheses
DebugC2pa(e) ==
    IF e.variant = "BadParam"
    THEN BadParamOpen \o EscapeDebug(e.msg) \o BadParamClose
    ELSE Str(e.variant)

\* the thread-local cell after set_error_detail(detail)
set_error_detail(detail) == detail

\* take_error_detail: split_off(0) hands out the whole string and leaves
\* the cell empty
take_error_detail(cell) == [ret |-> cell, cell |-> <<>>]

\* the fixed messages of Display for AttestationError
FixedMessages ==
    [e \in AttestationError |->
        CASE e = "SigningFailed" -> Str("Signing failed")
          [] e = "ManifestBuildFailed" -> Str("Manifest build failed")
          [] e = "CertificateError" -> Str("Certificate error")
          [] e = "JpegEmbedFailed" -> Str("JPEG embed failed")
          [] e = "JpegValidationFailed" ->
                Str("JPEG validation failed: not a valid JPEG")]

\* the fixed message of each variant
FixedMessage(self) == FixedMessages[self]

\* the ": " between the fixed message and the detail
DetailSeparator == Str(": ")

\* a Display that takes the detail only in the variants that print it
Display_fmt_lazy(self, cell) ==
    IF self \in {"CertificateError", "JpegValidationFailed"}
    THEN [out |-> FixedMessage(self), cell |-> cell]
    ELSE [out |-> IF cell = <<>> THEN FixedMessage(self)
                  ELSE FixedMessage(self) \o DetailSeparator \o cell,
          cell |-> <<>>]

\* Display::fmt for AttestationError on a thread whose cell holds `cell`:
\* the text written and the cell afterwards
Display_fmt(self, cell) ==
    LET taken == take_error_detail(cell)
        detail == taken.ret
    IN [out |-> IF self \in {"CertificateError", "JpegValidationFailed"}
                THEN FixedMessage(self)
                ELSE IF detail = <<>> THEN FixedMessage(self)
                ELSE FixedMessage(self) \o DetailSeparator \o detail,
        cell |-> taken.cell]

(***************************************************************************)
(* HardwareSignerAdapter                                                   *)
(***************************************************************************)

\* HardwareSignerAdapter::new, given what signer.certificate_der() returned
HardwareSignerAdapter_new(cert_res) ==
    IF cert_res.ok THEN Ok([cached_cert |-> cert_res.val])
    ELSE Err("CertificateError")

HardwareSignerError == Str("Hardware signer error: ")

\* "DER->P1363 conversion error: ", where the source has U+2192 for "->"
ConversionError == Str("DER") \o <<8594>> \o Str("P1363 conversion error: ")

\* c2pa::Signer::sign of the adapter, given what inner.sign(data) returned
Signer_sign(hw_res) ==
    IF ~hw_res.ok
    THEN Err(BadParam(HardwareSignerError \o SignerErrorDisplay(hw_res.err)))
    ELSE
    LET p == der_to_p1363_es256(hw_res.val) IN
    IF p.ok THEN p
    ELSE Err(BadParam(ConversionError \o p.err))

Signer_alg == "Es256"

Signer_certs(cert) == Ok(<<cert>>)

Signer_reserve_size == 10240

(***************************************************************************)
(* build_and_sign_c2pa                                                     *)
(***************************************************************************)

\* the SOI test of build_and_sign_c2pa
jpeg_magic_ok(bytes) == ~(Len(bytes) < 2 \/ bytes[1] # 255 \/ bytes[2] # 216)

\* SHA-256 is not computed: the digest is a token that names the hashed bytes
hash_bytes(data) == [sha256_hex |-> <<"sha256", data>>]

\* a classification that looks at nothing
map_sign_error_flat(e) == "JpegEmbedFailed"

\* the error kind for a Builder::from_json failure
map_from_json_error(e) == "ManifestBuildFailed"

\* the error kind for a builder.sign failure
map_sign_error(e) ==
    IF e.variant = "BadParam" THEN "SigningFailed" ELSE "JpegEmbedFailed"

\* invocations of build_and_sign_c2pa made on the thread
MaxInvocations == 2

\* calls the embedder makes on the adapter during one builder.sign
MaxCallbacks == 2

JpegInputs ==
    { <<>>, <<255>>, <<255, 216>>, <<255, 217>>, <<0, 216>> }

\* U+1F600, four bytes in UTF-8
Emoji == 128512

\* a context without nonce and coordinates whose app_name puts a char over
\* byte 200 of the sorted serialisation and none over byte 200 of the
\* serialisation in insertion order
PipelineContexts ==
    { Context(Rep(8, Emoji), <<80, 105, 120, 32, 56>>, Str("14"),
              Str("2024-01-01T00:00:00Z"), Str("hardware-attested"),
              None, None, None) }

CertA == <<48, 1, 10>>
CertB == <<48, 1, 11>>

\* what the capability's certificate_der() may return
CertResults == {Ok(CertA), Ok(CertB)} \cup {Err(e) : e \in SignerError}

\* what the capability's sign() may return: a DER signature (with the top
\* bits set, or cut short) or an error
HwSignResults ==
    { Ok(EncodeDer(ValueOf(FieldSize, 255, 255), ValueOf(1, 128, 0))),
      Ok(<<48, 129>>),
      Err("SignatureOperationFailed") }

\* errors the embedder raises by itself; the message of the first has a
\* quote, a backslash, a line feed and U+001B in it
EmbedderErrors ==
    {BadParam(Str("bad \"manifest\"\\") \o <<10, 27>>), UnitError("EmbeddingError")}

NoRet == [ok |-> FALSE, none |-> TRUE]
NoError == UnitError("none")
NoFmt == [err |-> "none", of |-> 0, out |-> <<>>, taken |-> <<>>, by |-> 0]
NoReturn == [ok |-> FALSE, err |-> "none"]

\* the invocation ended in a panic: nothing was returned
Panicked == [ok |-> FALSE, err |-> "panic"]
NoContext == Context(<<>>, <<>>, <<>>, <<>>, <<>>, None, None, None)

CountOp(log, op) == Cardinality({i \in 1..Len(log) : log[i].op = op})

SignerOps == {"sign", "certs", "alg", "reserve_size"}
Callbacks(log) == Cardinality({i \in 1..Len(log) : log[i].op \in SignerOps})

PipeIdle ==
    /\ pc = "idle"
    /\ inv = 0
    /\ jpeg_bytes = <<>>
    /\ context = NoContext
    /\ cached_cert = <<>>
    /\ manifest_json = <<>>
    /\ asset_hash = <<>>
    /\ calls = <<>>
    /\ signer_ret = NoRet
    /\ embed_err = NoError
    /\ returned = NoReturn
    /\ results = <<>>
    /\ LAST_ERROR_DETAIL = <<>>
    /\ detail_by = 0
    /\ last_fmt = NoFmt

\* the profile and the serde_json features the crate is built with; the
\* order of the keys shows in the debug build only
Builds == {<<FALSE, FALSE>>, <<TRUE, FALSE>>, <<TRUE, TRUE>>}

AnyBuild ==
    \E b \in Builds : debug_assertions = b[1] /\ preserve_order = b[2]

ReleaseBuild == debug_assertions = FALSE /\ preserve_order = FALSE

build == <<debug_assertions, preserve_order>>

others == <<codec_vars, mf_vars, build>>
args == <<inv, jpeg_bytes, context>>
locals == <<cached_cert, manifest_json, asset_hash>>
thread == <<LAST_ERROR_DETAIL, detail_by>>

\* build_and_sign_c2pa returns r to its caller
Return(r) ==
    /\ returned' = r
    /\ results' = Append(results, IF r.ok THEN "Ok" ELSE r.err)
    /\ pc' = "idle"

NoReturnYet == UNCHANGED <<returned, results>>

\* build_and_sign_c2pa panics and unwinds: the caller gets no value
Unwind ==
    /\ returned' = Panicked
    /\ results' = Append(results, "Panic")
    /\ pc' = "idle"

\* eprintln! under #[cfg(debug_assertions)]: TRUE when the line is written
\* (or compiled out), FALSE when the write to stderr fails, on which
\* eprintln! panics. Whether stderr takes the line is up to the environment.
eprintln == IF debug_assertions THEN {TRUE, FALSE} ELSE {TRUE}

\* the debug build's eprintln! of the first 200 bytes of manifest_json
DebugPrintPanics == debug_assertions /\ ~debug_slice_ok(context, preserve_order)

\* build_and_sign_c2pa is called: the debug line on entry, the SOI test and
\* the debug line of a rejection
Start ==
    /\ pc = "idle"
    /\ inv < MaxInvocations
    /\ \E bytes \in JpegInputs, ctx \in PipelineContexts,
          entry_printed \in eprintln, failure_printed \in eprintln :
        /\ jpeg_bytes' = bytes
        /\ context' = ctx
        /\ IF ~entry_printed THEN Unwind
           ELSE IF jpeg_magic_ok(bytes)
           THEN pc' = "adapter_new" /\ returned' = NoReturn /\ UNCHANGED results
           ELSE IF ~failure_printed THEN Unwind
           ELSE Return(Err("JpegValidationFailed"))
    /\ inv' = inv + 1
    /\ calls' = <<>>
    /\ cached_cert' = <<>>
    /\ manifest_json' = <<>>
    /\ asset_hash' = <<>>
    /\ signer_ret' = NoRet
    /\ embed_err' = NoError
    /\ last_fmt' = NoFmt
    /\ UNCHANGED <<thread, others>>

\* a construction that asks for the certificate again when the first try fails
AdapterNewRetry ==
    /\ pc = "adapter_new"
    /\ \E first \in CertResults, second \in CertResults, printed \in eprintln :
        LET log == IF first.ok
                   THEN <<[op |-> "certificate_der", ret |-> first]>>
                   ELSE <<[op |-> "certificate_der", ret |-> first],
                          [op |-> "certificate_der", ret |-> second]>>
            adapter == HardwareSignerAdapter_new(IF first.ok THEN first ELSE second)
        IN
        IF adapter.ok
        THEN /\ cached_cert' = adapter.val.cached_cert
             /\ asset_hash' = hash_bytes(jpeg_bytes)
             /\ manifest_json' = build_manifest_definition(context)
             /\ calls' = calls \o log \o <<[op |-> "hash_bytes"],
                                           [op |-> "build_manifest_definition"]>>
             /\ IF DebugPrintPanics \/ ~printed THEN Unwind
                ELSE pc' = "from_json" /\ NoReturnYet
        ELSE /\ calls' = calls \o log
             /\ Return(Err(adapter.err))
             /\ UNCHANGED locals
    /\ UNCHANGED <<args, signer_ret, embed_err, thread, last_fmt, others>>

\* HardwareSignerAdapter::new(signer)?, then hash_bytes,
\* build_manifest_definition and the debug line with the head of the manifest
AdapterNew ==
    /\ pc = "adapter_new"
    /\ \E cert_res \in CertResults, printed \in eprintln :
        LET adapter == HardwareSignerAdapter_new(cert_res) IN
        IF adapter.ok
        THEN /\ cached_cert' = adapter.val.cached_cert
             /\ asset_hash' = hash_bytes(jpeg_bytes)
             /\ manifest_json' = build_manifest_definition(context)
             /\ calls' = calls \o <<[op |-> "certificate_der", ret |-> cert_res],
                                    [op |-> "hash_bytes"],
                                    [op |-> "build_manifest_definition"]>>
             /\ IF DebugPrintPanics \/ ~printed THEN Unwind
                ELSE pc' = "from_json" /\ NoReturnYet
        ELSE /\ calls' = Append(calls, [op |-> "certificate_der", ret |-> cert_res])
             /\ Return(Err(adapter.err))
             /\ UNCHANGED locals
    /\ UNCHANGED <<args, signer_ret, embed_err, thread, last_fmt, others>>

\* c2pa::Builder::from_json(&manifest_json) and its map_err, whose debug
\* line comes before set_error_detail
FromJson ==
    /\ pc = "from_json"
    /\ \E res \in {Ok("builder")} \cup {Err(e) : e \in EmbedderErrors},
          printed \in eprintln :
        /\ calls' = Append(calls, [op |-> "from_json", json |-> manifest_json,
                                   ok |-> res.ok])
        /\ IF res.ok
           THEN /\ pc' = "builder_sign"
                /\ NoReturnYet
                /\ UNCHANGED <<thread, embed_err>>
           ELSE IF ~printed
           THEN /\ embed_err' = res.err
                /\ Unwind
                /\ UNCHANGED thread
           ELSE /\ LAST_ERROR_DETAIL' = set_error_detail(DebugC2pa(res.err))
                /\ detail_by' = inv
                /\ embed_err' = res.err
                /\ Return(Err(map_from_json_error(res.err)))
    /\ UNCHANGED <<args, locals, signer_ret, last_fmt, others>>

\* the debug line before the call, then
\* builder.sign(&adapter, "image/jpeg", &mut source, &mut dest) is entered
BuilderSignCall ==
    /\ pc = "builder_sign"
    /\ \E printed \in eprintln :
        IF ~printed
        THEN Unwind /\ UNCHANGED calls
        ELSE /\ calls' = Append(calls, [op |-> "builder_sign", format |-> ImageJpeg,
                                        source |-> jpeg_bytes])
             /\ pc' = "in_sign"
             /\ NoReturnYet
    /\ UNCHANGED <<args, locals, signer_ret, embed_err, thread, last_fmt, others>>

InSign == pc = "in_sign" /\ Callbacks(calls) < MaxCallbacks

\* the embedder calls adapter.sign(data), which calls inner.sign(data)
SignerSign ==
    /\ InSign
    /\ \E hw_res \in HwSignResults :
        /\ signer_ret' = Signer_sign(hw_res)
        /\ calls' = calls \o <<[op |-> "sign"], [op |-> "hardware_sign"]>>
    /\ NoReturnYet
    /\ UNCHANGED <<pc, args, locals, embed_err, thread, last_fmt, others>>

\* a certs that asks the capability for the certificate each time
SignerCertsRefetch ==
    /\ InSign
    /\ \E cert_res \in {Ok(CertA), Ok(CertB)} :
        calls' = calls \o <<[op |-> "certs", ret |-> Signer_certs(cert_res.val)],
                            [op |-> "certificate_der", ret |-> cert_res]>>
    /\ NoReturnYet
    /\ UNCHANGED <<pc, args, locals, signer_ret, embed_err, thread, last_fmt, others>>

\* the embedder calls adapter.certs()
SignerCerts ==
    /\ InSign
    /\ calls' = Append(calls, [op |-> "certs", ret |-> Signer_certs(cached_cert)])
    /\ NoReturnYet
    /\ UNCHANGED <<pc, args, locals, signer_ret, embed_err, thread, last_fmt, others>>

\* the embedder calls adapter.alg()
SignerAlg ==
    /\ InSign
    /\ calls' = Append(calls, [op |-> "alg", ret |-> Signer_alg])
    /\ NoReturnYet
    /\ UNCHANGED <<pc, args, locals, signer_ret, embed_err, thread, last_fmt, others>>

\* the embedder calls adapter.reserve_size()
SignerReserveSize ==
    /\ InSign
    /\ calls' = Append(calls, [op |-> "reserve_size", ret |-> Signer_reserve_size])
    /\ NoReturnYet
    /\ UNCHANGED <<pc, args, locals, signer_ret, embed_err, thread, last_fmt, others>>

\* what builder.sign may return: the signed bytes once the adapter has
\* delivered a signature, an error of the embedder's own, or the error the
\* adapter's sign returned
SignOutcomes ==
    (IF signer_ret.ok
     THEN {Ok([source |-> jpeg_bytes, manifest |-> manifest_json,
               signature |-> signer_ret.val])}
     ELSE {})
    \cup {Err(e) : e \in EmbedderErrors}
    \cup (IF ~signer_ret.ok /\ signer_ret # NoRet THEN {Err(signer_ret.err)} ELSE {})

\* builder.sign returns: its map_err, whose debug line comes before
\* set_error_detail, or the debug line of the success and the C2paSignedPhoto
BuilderSignReturn ==
    /\ pc = "in_sign"
    /\ \E res \in SignOutcomes, printed \in eprintln :
        IF res.ok
        THEN /\ IF ~printed THEN Unwind
                ELSE Return(Ok([signed_jpeg |-> res.val,
                                manifest_json |-> manifest_json,
                                asset_hash_hex |-> asset_hash.sha256_hex]))
             /\ UNCHANGED <<embed_err, thread>>
        ELSE IF ~printed
        THEN /\ embed_err' = res.err
             /\ Unwind
             /\ UNCHANGED thread
        ELSE /\ embed_err' = res.err
             /\ LAST_ERROR_DETAIL' = set_error_detail(DebugC2pa(res.err))
             /\ detail_by' = inv
             /\ Return(Err(map_sign_error(res.err)))
    /\ UNCHANGED <<args, locals, calls, signer_ret, last_fmt, others>>

\* the caller formats an AttestationError: a value of its own making
\* (of = 0) or the error invocation `of` returned. The record of the
\* invocation that had just returned is dropped.
Format ==
    /\ pc = "idle"
    /\ \E e \in AttestationError, of \in 0..Len(results) :
        /\ of > 0 => results[of] = e
        /\ LET f == Display_fmt(e, LAST_ERROR_DETAIL) IN
            /\ last_fmt' = [err |-> e, of |-> of, out |-> f.out,
                            taken |-> LAST_ERROR_DETAIL,
                            by |-> IF f.out = FixedMessage(e) THEN 0 ELSE detail_by]
            /\ LAST_ERROR_DETAIL' = f.cell
            /\ detail_by' = IF f.cell = <<>> THEN 0 ELSE detail_by
    /\ jpeg_bytes' = <<>>
    /\ context' = NoContext
    /\ cached_cert' = <<>>
    /\ manifest_json' = <<>>
    /\ asset_hash' = <<>>
    /\ calls' = <<>>
    /\ signer_ret' = NoRet
    /\ embed_err' = NoError
    /\ returned' = NoReturn
    /\ UNCHANGED <<pc, inv, results, others>>

Init == PipeIdle /\ AnyBuild /\ CodecIdle /\ MfIdle

Next ==
    \/ Start
    \/ AdapterNew
    \/ FromJson
    \/ BuilderSignCall
    \/ SignerSign
    \/ SignerCerts
    \/ SignerAlg
    \/ SignerReserveSize
    \/ BuilderSignReturn
    \/ Format

Spec == Init /\ [][Next]_vars

InitCodec == CodecInit /\ MfIdle /\ PipeIdle /\ ReleaseBuild

CodecNext == Decode /\ UNCHANGED <<mf_vars, pipe_vars>>

SpecCodec == InitCodec /\ [][CodecNext]_vars

InitManifest == MfInit /\ CodecIdle /\ PipeIdle /\ ReleaseBuild

ManifestNext == BuildManifest /\ UNCHANGED <<codec_vars, pipe_vars>>

SpecManifest == InitManifest /\ [][ManifestNext]_vars

(***************************************************************************)
(* Properties                                                              *)
(***************************************************************************)

\* the record of an invocation is there: it is running or has just returned
Live == pc # "idle" \/ returned # NoReturn

\* the invocation has just returned a value to its caller
JustReturned == pc = "idle" /\ returned \notin {NoReturn, Panicked}

BadMagic(bytes) == Len(bytes) < 2 \/ bytes[1] # 255 \/ bytes[2] # 216

\* C1: a buffer shorter than 2 bytes or not starting with 0xFF 0xD8 makes
\* build_and_sign_c2pa return JpegValidationFailed, and during that call
\* neither certificate_der nor sign of the capability is invoked and the
\* embedder is never called.
C1_BadMagicRejectedUntouched ==
    (Live /\ BadMagic(jpeg_bytes)) =>
        /\ pc = "idle"
        /\ returned = Err("JpegValidationFailed")
        /\ results[inv] = "JpegValidationFailed"
        /\ \A op \in {"certificate_der", "hardware_sign", "sign", "certs",
                      "from_json", "builder_sign"} : CountOp(calls, op) = 0
        /\ calls = <<>>

AdapterBuilt == pc \in {"from_json", "builder_sign", "in_sign"}

\* C2: over the lifetime of one adapter certificate_der is invoked exactly
\* once, at construction, before any call of the embedder; no sign, certs,
\* alg or reserve_size call invokes it again, and every certs call returns
\* the one-element chain holding the bytes fetched at construction.
C2_CertificateFetchedOnce ==
    /\ CountOp(calls, "certificate_der") <= 1
    /\ (AdapterBuilt \/ Callbacks(calls) > 0) =>
        /\ CountOp(calls, "certificate_der") = 1
        /\ calls[1].op = "certificate_der"
        /\ calls[1].ret.ok
        /\ cached_cert = calls[1].ret.val
    /\ \A i \in 1..Len(calls) :
        calls[i].op = "certs" => calls[i].ret = Ok(<<calls[1].ret.val>>)

\* the embedder asked for a signature and then for the chain of CertB
C2_Witness ==
    /\ calls # <<>>
    /\ calls[1].ret = Ok(CertB)
    /\ \E i, j \in 1..Len(calls) :
        /\ i < j
        /\ calls[i].op = "sign"
        /\ calls[j].op = "certs"
        /\ calls[j].ret = Ok(<<CertB>>)

LastCall == calls[Len(calls)]

\* C3: for a buffer that passes the SOI test the returned error kind is
\* fixed by the first failing step: a certificate_der failure gives
\* CertificateError, a from_json failure ManifestBuildFailed, a builder.sign
\* failure of the BadParam variant SigningFailed (which holds for every
\* error of the adapter's sign that the embedder hands on, a hardware failure
\* or a DER conversion failure), any other builder.sign failure
\* JpegEmbedFailed; and success is returned only if no step failed.
C3_ErrorKindByFirstFailure ==
    (JustReturned /\ ~BadMagic(jpeg_bytes)) =>
        /\ ~LastCall.op = "certificate_der" \/ returned = Err("CertificateError")
        /\ LastCall.op = "from_json" => returned = Err("ManifestBuildFailed")
        /\ (LastCall.op \notin {"certificate_der", "from_json"}
                /\ embed_err.variant = "BadParam")
            => returned = Err("SigningFailed")
        /\ (LastCall.op \notin {"certificate_der", "from_json"}
                /\ embed_err.variant \notin {"BadParam", "none"})
            => returned = Err("JpegEmbedFailed")
        /\ (LastCall.op \notin {"certificate_der", "from_json"}
                /\ ~signer_ret.ok /\ signer_ret # NoRet
                /\ embed_err = signer_ret.err)
            => returned = Err("SigningFailed")
        /\ returned.ok <=>
            (calls[1].ret.ok /\ embed_err = NoError /\ CountOp(calls, "builder_sign") = 1)
        /\ ~returned.ok =>
            returned.err \in {"CertificateError", "ManifestBuildFailed",
                              "SigningFailed", "JpegEmbedFailed"}

\* the embedder handed on a DER conversion failure of the adapter
C3_Witness ==
    /\ JustReturned
    /\ returned = Err("SigningFailed")
    /\ ~signer_ret.ok
    /\ signer_ret # NoRet
    /\ embed_err = signer_ret.err
    /\ embed_err.msg = Str("DER") \o <<8594>>
                            \o Str("P1363 conversion error: not a DER SEQUENCE")

NoGpsNoNonce(ctx) ==
    ctx.nonce = None /\ ctx.latitude = None /\ ctx.longitude = None

GpsKeys ==
    {"exif:GPSVersionID", "exif:GPSLatitude", "exif:GPSLongitude", "exif:GPSTimeStamp"}

ExifLabel == Str("stds.exif")

Labels(m) == [i \in 1..Len(m.assertions) |-> m.assertions[i].label]

ExifData(m) ==
    LET i == CHOOSE k \in 1..Len(m.assertions) : m.assertions[k].label = ExifLabel
    IN m.assertions[i].data

TrustLabel == Str("attestation.trust")

NoTrustNoGps(m) ==
    /\ \A i \in 1..Len(m.assertions) : m.assertions[i].label # TrustLabel
    /\ DOMAIN ExifData(m) \cap GpsKeys = {}

\* C4 as stated: a successful call for a context without nonce and without
\* coordinates returns a manifest_json with exactly 4 assertions, none of
\* them attestation.trust, and no GPS field in stds.exif.
C4_FourAssertions ==
    (JustReturned /\ returned.ok /\ NoGpsNoNonce(context)) =>
        /\ Len(returned.val.manifest_json.assertions) = 4
        /\ NoTrustNoGps(returned.val.manifest_json)

\* C4 as amended: a successful call for a context without nonce and without
\* coordinates returns a manifest_json with exactly 5 assertions, none of
\* them attestation.trust, and no GPS field in stds.exif.
C4_FiveAssertions ==
    (JustReturned /\ returned.ok /\ NoGpsNoNonce(context)) =>
        /\ Len(returned.val.manifest_json.assertions) = 5
        /\ NoTrustNoGps(returned.val.manifest_json)

\* a call for a context without nonce and coordinates succeeded
C4_Witness ==
    /\ JustReturned
    /\ returned.ok
    /\ NoGpsNoNonce(context)
    /\ CountOp(calls, "hardware_sign") >= 1

FixedLabels ==
    <<Str("c2pa.actions"), Str("stds.schema-org.CreativeWork"), Str("stds.exif"),
      Str("attestation.device"), Str("attestation.capture_time")>>

\* the manifest without its attestation.trust assertions
WithoutTrust(m) ==
    [m EXCEPT !.assertions =
        SelectSeq(@, LAMBDA a : a.label # TrustLabel)]

\* an assertion without the GPS fields of its data
DropGps(a) ==
    IF a.label = ExifLabel
    THEN [label |-> a.label,
          data |-> [k \in (DOMAIN a.data) \ GpsKeys |-> a.data[k]]]
    ELSE a

\* the manifest without the GPS fields of stds.exif
WithoutGps(m) ==
    [m EXCEPT !.assertions = [i \in 1..Len(m.assertions) |-> DropGps(m.assertions[i])]]

\* C5: the assertion list is c2pa.actions, stds.schema-org.CreativeWork,
\* stds.exif, attestation.device, attestation.capture_time in that order,
\* followed by attestation.trust iff a nonce is present; the GPS fields of
\* stds.exif are present iff both coordinates are (one alone adds none);
\* changing only the nonce or only the coordinates changes nothing else.
C5_ManifestShape ==
    mf_pc = "built" =>
        /\ Labels(mf_out) =
            (IF mf_ctx.nonce # None
             THEN Append(FixedLabels, TrustLabel) ELSE FixedLabels)
        /\ IF mf_ctx.latitude # None /\ mf_ctx.longitude # None
           THEN GpsKeys \subseteq DOMAIN ExifData(mf_out)
           ELSE DOMAIN ExifData(mf_out) \cap GpsKeys = {}
        /\ \A n \in NonceOptions :
            WithoutTrust(build_manifest_definition([mf_ctx EXCEPT !.nonce = n]))
                = WithoutTrust(mf_out)
        /\ \A lat \in LatitudeOptions, lon \in LongitudeOptions :
            WithoutGps(build_manifest_definition(
                [mf_ctx EXCEPT !.latitude = lat, !.longitude = lon]))
                = WithoutGps(mf_out)

\* a manifest was built for a context with a nonce and a latitude alone
C5_Witness ==
    /\ mf_pc = "built"
    /\ mf_ctx.nonce = Some(Str("nonce-1"))
    /\ mf_ctx.latitude # None
    /\ mf_ctx.longitude = None
    /\ Len(mf_out.assertions) = 6

\* C6: for r and s in [0, 2^256), given as 32 big-endian bytes each, the
\* minimal DER encoding of SEQUENCE { INTEGER r, INTEGER s } decodes to the
\* 64 bytes r || s.
C6_DerRoundTrip ==
    (codec_pc = "decoded" /\ Len(sig_r) = FieldSize /\ Len(sig_s) = FieldSize
        /\ der = EncodeDer(sig_r, sig_s)) =>
        /\ codec_out = Ok(sig_r \o sig_s)
        /\ Len(codec_out.val) = 64

\* r = 0 and a full-width s with the top bit set were decoded
C6_Witness ==
    /\ codec_pc = "decoded"
    /\ der_kind = "valid"
    /\ sig_r = Rep(FieldSize, 0)
    /\ sig_s = ValueOf(FieldSize, 255, 255)
    /\ Len(der) = 2 + 3 + 2 + 33
    /\ codec_out.ok

LengthDefectKinds ==
    {"outer_len_unsupported", "r_len_unsupported", "s_len_unsupported",
     "r_len_truncated", "s_len_truncated", "r_len_cut", "s_len_cut",
     "outer_len_truncated"}

TooLongKinds == {"r_too_long", "s_too_long"}

FirstByteNot30(d) == d # <<>> /\ d[1] # 48

\* the failure descriptions der_to_p1363_es256 gives the rejected ones of a
\* set of inputs
Descriptions(inputs) ==
    {der_to_p1363_es256(i.der).err :
        i \in {j \in inputs : ~der_to_p1363_es256(j.der).ok}}

\* the descriptions of the inputs whose first byte is not 0x30
WrongTagDescriptions ==
    Descriptions({i \in CodecInputs : FirstByteNot30(i.der)})

\* the descriptions of the inputs with a truncated or unsupported length
\* field, and of those among them that have at least 8 bytes
LengthDefectDescriptions ==
    Descriptions({i \in CodecInputs : i.kind \in LengthDefectKinds})

LongLengthDefectDescriptions ==
    Descriptions({i \in CodecInputs :
        i.kind \in LengthDefectKinds /\ Len(i.der) >= MinDerLen})

\* the descriptions of the inputs with an over-long r or s
TooLongDescriptions ==
    Descriptions({i \in CodecInputs : i.kind \in TooLongKinds})

\* C7 as stated: an input whose first byte is not 0x30, an input with a
\* truncated or unsupported length field and an input whose r or s exceeds
\* 32 bytes after stripping are all rejected, and the description an input
\* of one class gets is given to no input of the other two classes (the
\* first two classes are compared at the inputs of the second).
C7_DistinctDescriptions ==
    codec_pc = "decoded" =>
        /\ FirstByteNot30(der) =>
            /\ ~codec_out.ok
            /\ codec_out.err \notin TooLongDescriptions
        /\ der_kind \in LengthDefectKinds =>
            /\ ~codec_out.ok
            /\ codec_out.err \notin WrongTagDescriptions \cup TooLongDescriptions
        /\ der_kind \in TooLongKinds =>
            /\ ~codec_out.ok
            /\ codec_out.err \notin WrongTagDescriptions \cup LengthDefectDescriptions

\* C7 as amended: all three classes are rejected. An input shorter than
\* 8 bytes, as is every input whose outer length field is truncated, gets
\* the description of the first class. Among the inputs of at least 8 bytes
\* the description of a first byte other than 0x30, the descriptions of a
\* defect in the outer, r or s length field of an input that starts with
\* 0x30, and the descriptions of an over-long r or s in an otherwise
\* well-formed input are given to no input of another class (the first two
\* classes are compared at the inputs of the second).
C7_Rejections ==
    codec_pc = "decoded" =>
        /\ FirstByteNot30(der) =>
            /\ ~codec_out.ok
            /\ codec_out.err \notin TooLongDescriptions
        /\ der_kind \in LengthDefectKinds => ~codec_out.ok
        /\ (der_kind \in LengthDefectKinds /\ Len(der) >= MinDerLen) =>
            /\ der[1] = 48
            /\ codec_out.err \notin WrongTagDescriptions \cup TooLongDescriptions
        /\ Len(der) < MinDerLen =>
            /\ ~codec_out.ok
            /\ codec_out.err \in WrongTagDescriptions
        /\ der_kind = "outer_len_truncated" => Len(der) < MinDerLen
        /\ der_kind \in TooLongKinds =>
            /\ Len(der) >= MinDerLen
            /\ ~codec_out.ok
            /\ codec_out.err \notin WrongTagDescriptions \cup LongLengthDefectDescriptions

\* an over-long s with a redundant leading zero byte was rejected
C7_Witness ==
    /\ codec_pc = "decoded"
    /\ der_kind = "s_too_long"
    /\ sig_s[1] = 0
    /\ codec_out = Err(Str("integer too large: 33 bytes, expected ")
                            \o <<8804>> \o Str(" 32"))

\* C8: invocations share no mutable state: the rendering of the error an
\* invocation returned shows no detail stored by another invocation.
C8_RenderingIndependent ==
    (last_fmt.of > 0 /\ last_fmt.by # 0) => last_fmt.by = last_fmt.of

TopLevelOps ==
    <<"certificate_der", "hash_bytes", "build_manifest_definition",
      "from_json", "builder_sign">>

IsTopLevel(c) == c.op \notin SignerOps \cup {"hardware_sign"}

TopLevel(log) == SelectSeq(log, IsTopLevel)

\* C9: one invocation runs certificate_der, hash and manifest construction,
\* from_json, builder.sign in that order, each at most once; nothing runs
\* after a failed step; the adapter is called only inside builder.sign; the
\* caller's bytes reach the embedder unmodified; the result is never the
\* legacy placeholder.
C9_LinearPipeline ==
    LET top == TopLevel(calls) IN
    /\ Len(top) <= Len(TopLevelOps)
    /\ \A i \in 1..Len(top) : top[i].op = TopLevelOps[i]
    /\ \A i \in 1..Len(calls) :
        /\ (calls[i].op = "certificate_der" /\ ~calls[i].ret.ok) => i = Len(calls)
        /\ (calls[i].op = "from_json" /\ ~calls[i].ok) => i = Len(calls)
        /\ calls[i].op = "builder_sign" =>
            calls[i].source = jpeg_bytes /\ calls[i].format = ImageJpeg
        /\ ~IsTopLevel(calls[i]) =>
            \E j \in 1..(i - 1) : calls[j].op = "builder_sign"
    /\ (JustReturned /\ returned = Err("CertificateError")) =>
        TopLevel(calls) = <<[op |-> "certificate_der", ret |-> calls[1].ret]>>
    /\ (JustReturned /\ returned = Err("ManifestBuildFailed")) =>
        CountOp(calls, "builder_sign") = 0 /\ Callbacks(calls) = 0
    /\ (JustReturned /\ returned.ok) =>
        /\ DOMAIN returned.val = {"signed_jpeg", "manifest_json", "asset_hash_hex"}
        /\ returned.val.signed_jpeg.source = jpeg_bytes
        /\ returned.val.asset_hash_hex = <<"sha256", jpeg_bytes>>
    /\ JustReturned => Len(results) = inv

\* a from_json failure ended an invocation that had fetched the certificate
C9_Witness ==
    /\ JustReturned
    /\ returned = Err("ManifestBuildFailed")
    /\ Len(calls) = 4
    /\ calls[1].ret.ok

PrintsDetail(e) == e \in {"SigningFailed", "ManifestBuildFailed", "JpegEmbedFailed"}

\* C10: formatting an AttestationError of any variant leaves the stored
\* detail empty; it prints the fixed message, followed by the detail found
\* in the cell if the variant prints detail and the cell is not empty, so a
\* formatting that finds the cell empty (a second formatting) prints the
\* fixed message alone; the detail printed is the one stored last, by
\* whichever invocation.
C10_FormatConsumesDetail ==
    [][(last_fmt' # last_fmt /\ last_fmt'.err # "none") =>
        /\ LAST_ERROR_DETAIL' = <<>>
        /\ detail_by' = 0
        /\ last_fmt'.taken = LAST_ERROR_DETAIL
        /\ last_fmt'.out =
            (IF PrintsDetail(last_fmt'.err) /\ LAST_ERROR_DETAIL # <<>>
             THEN FixedMessage(last_fmt'.err) \o Str(": ") \o LAST_ERROR_DETAIL
             ELSE FixedMessage(last_fmt'.err))
        /\ last_fmt'.by =
            (IF PrintsDetail(last_fmt'.err) /\ LAST_ERROR_DETAIL # <<>>
             THEN detail_by ELSE 0)]_vars

\* a CertificateError was formatted while a detail was stored
C10_Witness ==
    /\ last_fmt.err = "CertificateError"
    /\ last_fmt.taken # <<>>
    /\ last_fmt.out = Str("Certificate error")
    /\ LAST_ERROR_DETAIL = <<>>

====
